---- MODULE Spec2Model ----
(***************************************************************************)
(* A model of src/channel.c: a fixed-capacity channel guarded by one       *)
(* pthread mutex and two condition variables, with close and a select      *)
(* that polls several channels through a shared semaphore.                 *)
(*                                                                         *)
(* Granularity: a thread's step is one critical section, from acquiring a  *)
(* channel mutex to the next point where it releases it (unlock, or        *)
(* pthread_cond_wait) -- or, in the scan loop of channel_select, to the    *)
(* next pthread_mutex_lock, because the scan keeps the mutex of a          *)
(* descriptor it finds not ready. A call of channel_send, channel_receive  *)
(* or channel_close made by the program is one step with its first         *)
(* critical section: until it holds the mutex the call has done nothing.   *)
(***************************************************************************)
EXTENDS Integers, Sequences, FiniteSets, Bags, TLC

\* ------------------------------------------------------------- bounds
MaxCalls == 3      \* calls made in one run, over all threads
StressM == 2       \* values each producer of the stress program sends

Threads == {"t1", "t2", "t3", "main"}
Channels == {"A", "B"}
\* the threads of the program that call channel_send, channel_receive and
\* channel_close, and the thread that calls channel_select
Callers == {"t1", "t2"}
Selectors == {"t3"}
\* the stress program: producers, consumers, and main, which closes
Producers == {"t1", "t2"}
Consumers == {"t3"}
ProducerNo == [t1 |-> 1, t2 |-> 2]
\* the size each channel is created with
Size == [A |-> 1, B |-> 2]

NoThread == "nobody"    \* an unlocked mutex
NULL == 0               \* channel->semaphore == NULL, and an empty output slot

\* enum chan_status
SUCCESS == "SUCCESS"
WOULDBLOCK == "WOULDBLOCK"
CLOSED_ERROR == "CLOSED_ERROR"
OTHER_ERROR == "OTHER_ERROR"
DESTROY_ERROR == "DESTROY_ERROR"
NoStatus == "-"

\* select_t: the descriptors a caller can list; data is filled in per call
Descriptors == [channel : Channels, is_send : BOOLEAN]
Lists == {<<d>> : d \in Descriptors} \cup {<<d, e>> : d, e \in Descriptors}

\* The payload a select call numbered n puts in the data field of its
\* descriptors, and the address of the data field of its i-th descriptor.
DescData(n, d) == IF d.is_send THEN n ELSE 0
SlotAddr(n, i) == 100 + 10 * n + i

VARIABLES
    buf,        \* channel->buffer: the queued values, oldest first
    open,       \* channel->open
    semaphore,  \* channel->semaphore: NULL or the semaphore of a select call
    mutex,      \* channel->mutex: the thread holding it, or NoThread
    semcount,   \* the count of each semaphore a select call allocated
    pc,         \* where each thread is
    cur,        \* the call each thread is in
    res,        \* the latest return: the thread, its call and the status
    ncalls,     \* calls made so far
    inserted,   \* per channel, the values buffer_add appended, in order
    obtained,   \* per channel, the values successful receives handed out
    freed       \* per channel, how often channel_destroy released it

vars == <<buf, open, semaphore, mutex, semcount, pc, cur, res, ncalls,
          inserted, obtained, freed>>

SemIds == 1..MaxCalls

NoCall == [op |-> "none", channel |-> "A", blocking |-> FALSE, data |-> NULL,
           list |-> <<>>, i |-> 0, sem |-> NULL, closed0 |-> {}]
\* the arguments of channel_send, channel_receive and channel_close
NewCall(op, c, blocking, data) ==
    [NoCall EXCEPT !.op = op, !.channel = c, !.blocking = blocking, !.data = data]
NoRes == [seq |-> 0, thread |-> NoThread, op |-> "none", kind |-> "none",
          channel |-> "A", blocking |-> FALSE, data |-> NULL, status |-> NoStatus,
          index |-> 0, out |-> NULL, closed |-> FALSE, list |-> <<>>,
          closed0 |-> {}]

\* ------------------------------------------------------------- buffer
\* buffer.h: the FIFO the channel owns
BufferCapacity(c) == Size[c]
BufferCurrentSize(c) == Len(buf[c])
BufferAdd(b, v) == Append(b, v)
BufferRemove(b) == Tail(b)
BufferFront(b) == Head(b)

\* ------------------------------------------------------------- create
\* channel_create(size): the channel it returns, if it returns one (the
\* empty set stands for the NULL it returns for size 0)
ChannelCreate(size) ==
    IF size = 0 THEN {}
    ELSE {[capacity |-> size, buffer |-> <<>>, semaphore |-> NULL,
           open |-> TRUE]}

\* channel_create(size) for size > 0; size == 0 gives no channel
Init ==
    /\ buf = [c \in Channels |-> <<>>]
    /\ open = [c \in Channels |-> TRUE]
    /\ semaphore = [c \in Channels |-> NULL]
    /\ mutex = [c \in Channels |-> NoThread]
    /\ semcount = [s \in SemIds |-> 0]
    /\ pc = [t \in Threads |-> "idle"]
    /\ cur = [t \in Threads |-> NoCall]
    /\ res = NoRes
    /\ ncalls = 0
    /\ inserted = [c \in Channels |-> <<>>]
    /\ obtained = [c \in Channels |-> <<>>]
    /\ freed = [c \in Channels |-> 0]

\* ------------------------------------------------------------- helpers
\* pthread_mutex_lock returns: the mutex is free, or the caller already
\* holds it (relocking a default mutex is undefined: one outcome is that
\* the call returns, the other is SelfDeadlock below).
CanLock(t, c) == mutex[c] = NoThread \/ mutex[c] = t

\* pthread_mutex_unlock, and the release inside pthread_cond_wait
Unlock(c) == [mutex EXCEPT ![c] = NoThread]

\* threads parked in pthread_cond_wait on a condition of channel c
Waiters(c, label) == {w \in Threads : pc[w] = label /\ cur[w].channel = c}

\* pthread_cond_signal wakes one waiter if there is any
SignalChoices(c, label) ==
    IF Waiters(c, label) = {} THEN {NoThread} ELSE Waiters(c, label)

\* sem_post(channel->semaphore) if one is registered
SemPost(c) ==
    IF semaphore[c] # NULL
    THEN [semcount EXCEPT ![semaphore[c]] = @ + 1]
    ELSE semcount

\* what a call k returns, the seq-th return of the run: kind is the channel
\* operation that returned, op the call the program made (a channel_select
\* returns what its channel_send or channel_receive returns), index is
\* *selected_index, out the content of the output slot, closed whether
\* channel_close had succeeded on the channel before this return, closed0
\* the listed channels that were closed when the first scan began
Result(t, k, kind, status, out) ==
    [seq |-> res.seq + 1, thread |-> t, op |-> k.op, kind |-> kind,
     channel |-> k.channel, blocking |-> k.blocking, data |-> k.data,
     status |-> status, index |-> k.i, out |-> out,
     closed |-> ~open[k.channel], list |-> k.list, closed0 |-> k.closed0]

\* thread t returns from its call
Return(t, r) ==
    /\ res' = r
    /\ cur' = [cur EXCEPT ![t] = NoCall]

\* thread t parks in pthread_cond_wait inside call k
Park(t, k, label) ==
    /\ pc' = [pc EXCEPT ![t] = label]
    /\ cur' = [cur EXCEPT ![t] = k]
    /\ UNCHANGED res

\* ------------------------------------------------------------- channel_send
\* if(!channel->open) at the top of channel_send
SendEntryClosed(c) == ~open[c]
\* a full test that lets a send into a full buffer
SendBufferOverfull(c) == BufferCapacity(c) < BufferCurrentSize(c)

\* a full test that is off by one
SendBufferAlmostFull(c) == BufferCapacity(c) <= BufferCurrentSize(c) + 1

\* buffer_capacity(channel->buffer) == buffer_current_size(channel->buffer)
SendBufferFull(c) == BufferCapacity(c) = BufferCurrentSize(c)
\* if(!channel->open) inside the wait loop
SendLoopClosed(c) == ~open[c]
\* if (channel->open) around buffer_add
SendAddGuard(c) == open[c]

\* unlock and return without having touched the buffer
SendFail(t, k, status) ==
    /\ Return(t, Result(t, k, "send", status, NULL))
    /\ pc' = [pc EXCEPT ![t] = "idle"]
    /\ UNCHANGED <<buf, semcount, inserted>>

\* pthread_cond_wait(&channel->send, &channel->mutex)
SendWait(t, k) ==
    /\ Park(t, k, "send_wait")
    /\ UNCHANGED <<buf, semcount, inserted>>

\* buffer_add under if(channel->open), sem_post, pthread_cond_signal(&recv),
\* unlock and return SUCCESS
SendFinish(t, k) ==
    LET c == k.channel IN
    /\ IF SendAddGuard(c)
       THEN /\ buf' = [buf EXCEPT ![c] = BufferAdd(@, k.data)]
            /\ inserted' = [inserted EXCEPT ![c] = Append(@, k.data)]
       ELSE UNCHANGED <<buf, inserted>>
    /\ semcount' = SemPost(c)
    /\ \E w \in SignalChoices(c, "recv_wait") :
         pc' = [x \in Threads |-> IF x = t THEN "idle"
                                  ELSE IF x = w THEN "recv_woken" ELSE pc[x]]
    /\ Return(t, Result(t, k, "send", SUCCESS, NULL))

\* channel_send from the while loop (blocking) or the full test
\* (non-blocking) on
SendRest(t, k) ==
    LET c == k.channel IN
    IF k.blocking
    THEN IF SendBufferFull(c)
         THEN IF SendLoopClosed(c) THEN SendFail(t, k, CLOSED_ERROR)
              ELSE SendWait(t, k)
         ELSE SendFinish(t, k)
    ELSE IF SendBufferFull(c) THEN SendFail(t, k, WOULDBLOCK)
         ELSE SendFinish(t, k)

\* channel_send from pthread_mutex_lock on
SendBody(t, k) ==
    /\ CanLock(t, k.channel)
    /\ IF SendEntryClosed(k.channel) THEN SendFail(t, k, CLOSED_ERROR)
       ELSE SendRest(t, k)
    /\ mutex' = Unlock(k.channel)
    /\ UNCHANGED <<open, semaphore, obtained, freed>>

\* thread t calls channel_send(c, data, blocking)
SendCall(t, c, blocking, data) ==
    /\ pc[t] = "idle"
    /\ ncalls' = ncalls + 1
    /\ SendBody(t, NewCall("send", c, blocking, data))

\* the program calls channel_send: the values sent are all different
Send(t) ==
    /\ ncalls < MaxCalls
    /\ \E c \in Channels, b \in BOOLEAN : SendCall(t, c, b, ncalls + 1)

\* channel_select calls channel_send on the descriptor it picked
SelectSend(t) ==
    /\ pc[t] = "send_lock"
    /\ SendBody(t, cur[t])
    /\ UNCHANGED ncalls

\* pthread_cond_wait returns with the mutex held again: the loop test
SendWake(t) ==
    /\ pc[t] = "send_woken"
    /\ CanLock(t, cur[t].channel)
    /\ SendRest(t, cur[t])
    /\ mutex' = Unlock(cur[t].channel)
    /\ UNCHANGED <<open, semaphore, ncalls, obtained, freed>>

\* ------------------------------------------------------------- channel_receive
\* a channel_receive that does not test open at the top
RecvEntryUnchecked(c) == FALSE

\* if(!channel->open) at the top of channel_receive
RecvEntryClosed(c) == ~open[c]
\* !buffer_current_size(channel->buffer)
RecvBufferEmpty(c) == BufferCurrentSize(c) = 0
\* if(!channel->open) inside the wait loop
RecvLoopClosed(c) == ~open[c]
\* if (channel->open) around buffer_remove
RecvRemoveGuard(c) == open[c]

\* unlock and return without having touched the buffer; *data keeps what
\* it held
RecvFail(t, k, status) ==
    /\ Return(t, Result(t, k, "recv", status, k.data))
    /\ pc' = [pc EXCEPT ![t] = "idle"]
    /\ UNCHANGED <<buf, semcount, obtained>>

\* pthread_cond_wait(&channel->recv, &channel->mutex)
RecvWait(t, k) ==
    /\ Park(t, k, "recv_wait")
    /\ UNCHANGED <<buf, semcount, obtained>>

\* a channel_receive that removes the element and does not store it in *data
RecvFinishUnstored(t, k) ==
    LET c == k.channel IN
    /\ buf' = IF RecvRemoveGuard(c) THEN [buf EXCEPT ![c] = BufferRemove(@)]
              ELSE buf
    /\ obtained' = [obtained EXCEPT ![c] = Append(@, k.data)]
    /\ semcount' = SemPost(c)
    /\ \E w \in SignalChoices(c, "send_wait") :
         pc' = [x \in Threads |-> IF x = t THEN "idle"
                                  ELSE IF x = w THEN "send_woken" ELSE pc[x]]
    /\ Return(t, Result(t, k, "recv", SUCCESS, k.data))

\* *data = buffer_remove under if(channel->open), sem_post,
\* pthread_cond_signal(&send), unlock and return SUCCESS
RecvFinish(t, k) ==
    LET c == k.channel
        out == IF RecvRemoveGuard(c) THEN BufferFront(buf[c]) ELSE k.data
    IN
    /\ buf' = IF RecvRemoveGuard(c) THEN [buf EXCEPT ![c] = BufferRemove(@)]
              ELSE buf
    /\ obtained' = [obtained EXCEPT ![c] = Append(@, out)]
    /\ semcount' = SemPost(c)
    /\ \E w \in SignalChoices(c, "send_wait") :
         pc' = [x \in Threads |-> IF x = t THEN "idle"
                                  ELSE IF x = w THEN "send_woken" ELSE pc[x]]
    /\ Return(t, Result(t, k, "recv", SUCCESS, out))

\* channel_receive from the while loop (blocking) or the empty test
\* (non-blocking) on
RecvRest(t, k) ==
    LET c == k.channel IN
    IF k.blocking
    THEN IF RecvBufferEmpty(c)
         THEN IF RecvLoopClosed(c) THEN RecvFail(t, k, CLOSED_ERROR)
              ELSE RecvWait(t, k)
         ELSE RecvFinish(t, k)
    ELSE IF RecvBufferEmpty(c) THEN RecvFail(t, k, WOULDBLOCK)
         ELSE RecvFinish(t, k)

\* channel_receive from pthread_mutex_lock on
RecvBody(t, k) ==
    /\ CanLock(t, k.channel)
    /\ IF RecvEntryClosed(k.channel) THEN RecvFail(t, k, CLOSED_ERROR)
       ELSE RecvRest(t, k)
    /\ mutex' = Unlock(k.channel)
    /\ UNCHANGED <<open, semaphore, inserted, freed>>

\* thread t calls channel_receive(c, &data, blocking), data being NULL
ReceiveCall(t, c, blocking) ==
    /\ pc[t] = "idle"
    /\ ncalls' = ncalls + 1
    /\ RecvBody(t, NewCall("recv", c, blocking, NULL))

\* the program calls channel_receive
Receive(t) ==
    /\ ncalls < MaxCalls
    /\ \E c \in Channels, b \in BOOLEAN : ReceiveCall(t, c, b)

\* channel_select calls channel_receive on the descriptor it picked
SelectReceive(t) ==
    /\ pc[t] = "recv_lock"
    /\ RecvBody(t, cur[t])
    /\ UNCHANGED ncalls

\* pthread_cond_wait returns with the mutex held again: the loop test
RecvWake(t) ==
    /\ pc[t] = "recv_woken"
    /\ CanLock(t, cur[t].channel)
    /\ RecvRest(t, cur[t])
    /\ mutex' = Unlock(cur[t].channel)
    /\ UNCHANGED <<open, semaphore, ncalls, inserted, freed>>

\* pthread_cond_wait may return without a signal
SpuriousWakeup(t) ==
    /\ pc[t] \in {"send_wait", "recv_wait"}
    /\ pc' = [pc EXCEPT ![t] = IF pc[t] = "send_wait" THEN "send_woken"
                                ELSE "recv_woken"]
    /\ UNCHANGED <<buf, open, semaphore, mutex, semcount, cur, res, ncalls,
                   inserted, obtained, freed>>

\* ------------------------------------------------------------- channel_close
\* a channel_close that does not test open
CloseUnchecked(c) == FALSE

\* if(!channel->open) in channel_close
CloseAlreadyClosed(c) == ~open[c]

\* a channel_close that broadcasts on the send condition only
BroadcastSend(t, c) ==
    [x \in Threads |->
        IF x = t THEN "idle"
        ELSE IF x \in Waiters(c, "send_wait") THEN "send_woken"
        ELSE pc[x]]

\* pthread_cond_broadcast on both conditions
Broadcast(t, c) ==
    [x \in Threads |->
        IF x = t THEN "idle"
        ELSE IF x \in Waiters(c, "send_wait") THEN "send_woken"
        ELSE IF x \in Waiters(c, "recv_wait") THEN "recv_woken"
        ELSE pc[x]]

\* channel_close from pthread_mutex_lock to the return
CloseBody(t, k) ==
    LET c == k.channel IN
    /\ CanLock(t, c)
    /\ IF CloseAlreadyClosed(c)
       THEN /\ Return(t, Result(t, k, "close", CLOSED_ERROR, NULL))
            /\ pc' = [pc EXCEPT ![t] = "idle"]
            /\ UNCHANGED <<open, semcount>>
       ELSE /\ open' = [open EXCEPT ![c] = FALSE]
            /\ pc' = Broadcast(t, c)
            /\ semcount' = SemPost(c)
            /\ Return(t, Result(t, k, "close", SUCCESS, NULL))
    /\ mutex' = Unlock(c)
    /\ UNCHANGED <<buf, semaphore, inserted, obtained, freed>>

\* thread t calls channel_close(c)
CloseCall(t, c) ==
    /\ pc[t] = "idle"
    /\ ncalls' = ncalls + 1
    /\ CloseBody(t, NewCall("close", c, FALSE, NULL))

\* the program calls channel_close
Close(t) ==
    /\ ncalls < MaxCalls
    /\ \E c \in Channels : CloseCall(t, c)

\* ------------------------------------------------------------- channel_select
\* the program calls channel_select(count, list, &index): malloc and
\* sem_init(semaphore, 1, 0) give a new semaphore, named by the call
Select(t) ==
    /\ pc[t] = "idle"
    /\ ncalls < MaxCalls
    /\ \E l \in Lists :
         cur' = [cur EXCEPT ![t] = [NoCall EXCEPT !.op = "select", !.list = l,
                                       !.sem = ncalls + 1]]
    /\ pc' = [pc EXCEPT ![t] = "select_register"]
    /\ ncalls' = ncalls + 1
    /\ UNCHANGED <<buf, open, semaphore, mutex, semcount, res, inserted,
                   obtained, freed>>

\* a scan that takes the list from its end
DescFromEnd(t) == cur[t].list[Len(cur[t].list) - cur[t].i]

\* channel_list[i] of the call thread t is in (i counts from 0 as in C)
Desc(t) == cur[t].list[cur[t].i + 1]

\* the channels of a list that are closed
ClosedListed(l) == {l[j].channel : j \in {j \in 1..Len(l) : ~open[l[j].channel]}}

\* a registration that leaves a semaphore already recorded in place
SelectRegisterKeep(t) ==
    LET c == cur[t].list[cur[t].i + 1].channel
        last == cur[t].i + 1 = Len(cur[t].list)
    IN
    /\ pc[t] = "select_register"
    /\ CanLock(t, c)
    /\ semaphore' = [semaphore EXCEPT ![c] = IF @ = NULL THEN cur[t].sem ELSE @]
    /\ mutex' = Unlock(c)
    /\ cur' = [cur EXCEPT ![t].i = IF last THEN 0 ELSE @ + 1]
    /\ pc' = [pc EXCEPT ![t] = IF last THEN "select_scan" ELSE @]
    /\ UNCHANGED <<buf, open, semcount, res, ncalls, inserted,
                   obtained, freed>>

\* one round of the first for loop: lock, channel->semaphore = semaphore, unlock
SelectRegister(t) ==
    LET c == Desc(t).channel
        last == cur[t].i + 1 = Len(cur[t].list)
    IN
    /\ pc[t] = "select_register"
    /\ CanLock(t, c)
    /\ semaphore' = [semaphore EXCEPT ![c] = cur[t].sem]
    /\ mutex' = Unlock(c)
    /\ cur' = [cur EXCEPT ![t].i = IF last THEN 0 ELSE @ + 1,
                          ![t].closed0 = IF last THEN ClosedListed(cur[t].list)
                                         ELSE @]
    /\ pc' = [pc EXCEPT ![t] = IF last THEN "select_scan" ELSE @]
    /\ UNCHANGED <<buf, open, semcount, res, ncalls, inserted,
                   obtained, freed>>

\* the readiness test of the scan
SelectReady(d) ==
    IF d.is_send
    THEN BufferCapacity(d.channel) > BufferCurrentSize(d.channel)
    ELSE BufferCurrentSize(d.channel) # 0

\* a select that makes its channel_send or channel_receive non-blocking
SelectPickNonBlocking(t) ==
    LET d == cur[t].list[cur[t].i + 1] IN
    /\ mutex' = Unlock(d.channel)
    /\ cur' = [cur EXCEPT ![t].channel = d.channel, ![t].blocking = FALSE,
                          ![t].data = IF d.is_send
                                      THEN SlotAddr(cur[t].sem, cur[t].i)
                                      ELSE DescData(cur[t].sem, d)]
    /\ pc' = [pc EXCEPT ![t] = IF d.is_send THEN "send_lock" ELSE "recv_lock"]

\* a ready descriptor: *selected_index = i, unlock, and the call of
\* channel_send(channel, &channel_list[i].data, true) or
\* channel_receive(channel, &channel_list[i].data, true)
SelectPick(t) ==
    LET d == Desc(t) IN
    /\ mutex' = Unlock(d.channel)
    /\ cur' = [cur EXCEPT ![t].channel = d.channel, ![t].blocking = TRUE,
                          ![t].data = IF d.is_send
                                      THEN SlotAddr(cur[t].sem, cur[t].i)
                                      ELSE DescData(cur[t].sem, d)]
    /\ pc' = [pc EXCEPT ![t] = IF d.is_send THEN "send_lock" ELSE "recv_lock"]

\* a descriptor that is not ready: the loop goes on with the mutex still
\* locked, to the next descriptor or to sem_wait
SelectSkip(t) ==
    LET last == cur[t].i + 1 = Len(cur[t].list) IN
    /\ mutex' = [mutex EXCEPT ![Desc(t).channel] = t]
    /\ cur' = [cur EXCEPT ![t].i = IF last THEN 0 ELSE @ + 1]
    /\ pc' = [pc EXCEPT ![t] = IF last THEN "select_wait" ELSE @]

\* one round of the scan: pthread_mutex_lock and the readiness test
SelectScan(t) ==
    /\ pc[t] = "select_scan"
    /\ CanLock(t, Desc(t).channel)
    /\ IF SelectReady(Desc(t)) THEN SelectPick(t) ELSE SelectSkip(t)
    /\ UNCHANGED <<buf, open, semaphore, semcount, res, ncalls,
                   inserted, obtained, freed>>

\* sem_wait(semaphore) returns, and the scan starts again
SelectWait(t) ==
    /\ pc[t] = "select_wait"
    /\ semcount[cur[t].sem] > 0
    /\ semcount' = [semcount EXCEPT ![cur[t].sem] = @ - 1]
    /\ pc' = [pc EXCEPT ![t] = "select_scan"]
    /\ UNCHANGED <<buf, open, semaphore, mutex, cur, res, ncalls,
                   inserted, obtained, freed>>

\* ------------------------------------------------------------- pthread_mutex_lock
\* the mutexes thread t may be about to lock
LockTargets(t) ==
    IF pc[t] \in {"select_register", "select_scan"} THEN {Desc(t).channel}
    ELSE IF pc[t] = "idle" THEN IF ncalls < MaxCalls THEN Channels ELSE {}
    ELSE IF pc[t] \in {"send_lock", "send_woken", "recv_lock", "recv_woken"}
    THEN {cur[t].channel}
    ELSE {}

\* pthread_mutex_lock on a mutex the caller holds (one the scan of an earlier
\* or of this channel_select left locked) never returns: the other outcome
\* of relocking a default mutex
SelfDeadlock(t) ==
    /\ \E c \in LockTargets(t) : mutex[c] = t
    /\ pc' = [pc EXCEPT ![t] = "deadlocked"]
    /\ ncalls' = IF pc[t] = "idle" THEN ncalls + 1 ELSE ncalls
    /\ UNCHANGED <<buf, open, semaphore, mutex, semcount, cur, res,
                   inserted, obtained, freed>>

\* ------------------------------------------------------------- specification
Next ==
    \E t \in Threads :
        \/ t \in Callers /\ Send(t)
        \/ SelectSend(t)
        \/ SendWake(t)
        \/ t \in Callers /\ Receive(t)
        \/ SelectReceive(t)
        \/ RecvWake(t)
        \/ SpuriousWakeup(t)
        \/ t \in Callers /\ Close(t)
        \/ t \in Selectors /\ Select(t)
        \/ SelectRegister(t)
        \/ SelectScan(t)
        \/ SelectWait(t)
        \/ SelfDeadlock(t)

Spec == Init /\ [][Next]_vars

\* A thread inside a call is a runnable OS thread whenever its next step is
\* possible: the scheduler runs it in the end. Nothing makes the program
\* call again, and nothing makes a spurious wakeup happen.
Runs(t) ==
    \/ SelectSend(t)
    \/ SendWake(t)
    \/ SelectReceive(t)
    \/ RecvWake(t)
    \/ SelectRegister(t)
    \/ SelectScan(t)
    \/ SelectWait(t)

FairSpec == Spec /\ \A t \in Threads : WF_vars(Runs(t))

\* ------------------------------------------------------------- two selects
\* A program in which two threads call channel_select while a third
\* sends, receives and closes.
PairSelectors == {"t2", "t3"}
PairCallers == {"t1"}

PairNext ==
    \E t \in Threads :
        \/ t \in PairCallers /\ Send(t)
        \/ t \in PairCallers /\ Receive(t)
        \/ t \in PairCallers /\ Close(t)
        \/ t \in PairSelectors /\ Select(t)
        \/ SelectRegister(t)
        \/ SelectScan(t)
        \/ SelectWait(t)
        \/ SelectSend(t)
        \/ SelectReceive(t)
        \/ SendWake(t)
        \/ RecvWake(t)
        \/ SelfDeadlock(t)

PairSpec == Init /\ [][PairNext]_vars

\* ------------------------------------------------------------- stress program
\* Producers each send StressM different values on channel A with blocking
\* sends, consumers drain it with blocking receives, and main closes A
\* once every send has returned.
ValueOf(t, k) == 10 * ProducerNo[t] + k
SentBy(t) ==
    Cardinality({j \in 1..Len(inserted["A"]) :
                    inserted["A"][j] \div 10 = ProducerNo[t]})
AllSent == \A p \in Producers : SentBy(p) = StressM /\ pc[p] = "idle"

Produce(t) ==
    /\ SentBy(t) < StressM
    /\ SendCall(t, "A", TRUE, ValueOf(t, SentBy(t) + 1))

\* calls in one run of the stress program: every send, a receive for every
\* value, the close, and a receive that finds the channel closed
StressCalls == 2 * Cardinality(Producers) * StressM + 2

Consume(t) ==
    /\ ncalls < StressCalls
    /\ ReceiveCall(t, "A", TRUE)

CloseWhenSent ==
    /\ AllSent
    /\ open["A"]
    /\ CloseCall("main", "A")

StressNext ==
    \/ \E t \in Producers : Produce(t)
    \/ \E t \in Consumers : Consume(t)
    \/ CloseWhenSent
    \/ \E t \in Threads : SendWake(t)
    \/ \E t \in Threads : RecvWake(t)
    \/ \E t \in Threads : SpuriousWakeup(t)

\* The threads of the stress program are running OS threads: each goes on
\* with its loop, and with the call it is in, whenever it can.
StressFair ==
    /\ \A t \in Producers : WF_vars(Produce(t))
    /\ \A t \in Consumers : WF_vars(Consume(t))
    /\ WF_vars(CloseWhenSent)
    /\ \A t \in Threads : WF_vars(SendWake(t)) /\ WF_vars(RecvWake(t))

StressSpec == Init /\ [][StressNext]_vars /\ StressFair

\* ------------------------------------------------------------- channel_destroy
\* channel_destroy takes no lock, so it can run inside another thread's
\* critical section. For the program that destroys channels, channel_close
\* is therefore taken in two steps: up to channel->open = false, and from
\* the broadcasts to the return.

\* channel_close from pthread_mutex_lock to channel->open = false
CloseBegin(t) ==
    /\ pc[t] = "idle"
    /\ ncalls < MaxCalls
    /\ ncalls' = ncalls + 1
    /\ \E c \in Channels :
         LET k == NewCall("close", c, FALSE, NULL) IN
         /\ CanLock(t, c)
         /\ IF CloseAlreadyClosed(c)
            THEN /\ Return(t, Result(t, k, "close", CLOSED_ERROR, NULL))
                 /\ mutex' = Unlock(c)
                 /\ UNCHANGED <<open, pc>>
            ELSE /\ open' = [open EXCEPT ![c] = FALSE]
                 /\ mutex' = [mutex EXCEPT ![c] = t]
                 /\ pc' = [pc EXCEPT ![t] = "close_mid"]
                 /\ cur' = [cur EXCEPT ![t] = k]
                 /\ UNCHANGED res
    /\ UNCHANGED <<buf, semaphore, semcount, inserted, obtained, freed>>

\* channel_close from the broadcasts to return SUCCESS
CloseEnd(t) ==
    LET c == cur[t].channel IN
    /\ pc[t] = "close_mid"
    /\ pc' = Broadcast(t, c)
    /\ semcount' = SemPost(c)
    /\ mutex' = Unlock(c)
    /\ Return(t, Result(t, cur[t], "close", SUCCESS, NULL))
    /\ UNCHANGED <<buf, open, semaphore, ncalls, inserted, obtained, freed>>

\* a channel_destroy that does not test open
DestroyUnchecked(c) == FALSE

\* if(channel->open) in channel_destroy, read without the mutex
DestroyOpen(c) == open[c]

\* what channel->open reads as: the flag, or, once free(channel) has run,
\* whatever the freed memory holds
DestroyReads(c) == IF freed[c] = 0 THEN {DestroyOpen(c)} ELSE BOOLEAN

\* thread t calls channel_destroy(c): DESTROY_ERROR if open, else
\* buffer_free, pthread_cond_destroy twice, pthread_mutex_destroy, free
DestroyCall(t, c) ==
    LET k == NewCall("destroy", c, FALSE, NULL) IN
    /\ pc[t] = "idle"
    /\ ncalls' = ncalls + 1
    /\ \E o \in DestroyReads(c) :
         IF o
         THEN /\ Return(t, Result(t, k, "destroy", DESTROY_ERROR, NULL))
              /\ UNCHANGED freed
         ELSE /\ Return(t, Result(t, k, "destroy", SUCCESS, NULL))
              /\ freed' = [freed EXCEPT ![c] = @ + 1]
    /\ UNCHANGED <<buf, open, semaphore, mutex, semcount, pc, inserted,
                   obtained>>

\* the program calls channel_destroy
Destroy(t) ==
    /\ ncalls < MaxCalls
    /\ \E c \in Channels : DestroyCall(t, c)

\* the channels a step of thread t would touch
Touches(t) ==
    IF pc[t] = "idle" THEN IF ncalls < MaxCalls THEN Channels ELSE {}
    ELSE IF pc[t] \in {"send_woken", "recv_woken", "close_mid"}
    THEN {cur[t].channel}
    ELSE {}

\* a thread that touches a channel free(channel) has released: besides
\* going on with what the freed memory still holds, it can fault
UseAfterFree(t) ==
    /\ \E c \in Touches(t) : freed[c] > 0
    /\ pc' = [pc EXCEPT ![t] = "faulted"]
    /\ ncalls' = IF pc[t] = "idle" THEN ncalls + 1 ELSE ncalls
    /\ UNCHANGED <<buf, open, semaphore, mutex, semcount, cur, res,
                   inserted, obtained, freed>>

\* the program that creates, uses, closes and destroys channels
LifeNext ==
    \E t \in Callers :
        \/ Send(t)
        \/ SendWake(t)
        \/ Receive(t)
        \/ RecvWake(t)
        \/ CloseBegin(t)
        \/ CloseEnd(t)
        \/ Destroy(t)
        \/ UseAfterFree(t)

LifeSpec == Init /\ [][LifeNext]_vars

\* ------------------------------------------------------------- properties
\* a step in which a call returns: res' is what it returned
Returns == res'.seq # res.seq

\* C1: once channel_close has returned SUCCESS on a channel, every
\* channel_send and channel_receive on it that returns afterwards returns
\* CLOSED_ERROR, whether the call started after the close or was already
\* waiting inside when the close happened.
C1_CloseFinality ==
    (res.kind \in {"send", "recv"} /\ res.closed) => res.status = CLOSED_ERROR

\* C2: channel_send returns SUCCESS only if the call appended its value to
\* the buffer, channel_receive returns SUCCESS only if the call removed the
\* oldest element into the caller's slot, and a call that returns any other
\* status has left the buffer as it was.
C2_SuccessMeansDone ==
    [][Returns =>
        LET r == res'
            c == r.channel
        IN  /\ r.kind = "send" =>
                 buf'[c] = IF r.status = SUCCESS THEN Append(buf[c], r.data)
                           ELSE buf[c]
            /\ r.kind = "recv" =>
                 IF r.status = SUCCESS
                 THEN /\ buf[c] # <<>>
                      /\ buf'[c] = Tail(buf[c])
                      /\ r.out = Head(buf[c])
                 ELSE buf'[c] = buf[c]]_vars

\* C3: while channel_select waits on its semaphore after a scan that found
\* nothing ready, other threads can still lock, and so send, receive and
\* close on, every listed channel, so that one of them can make a
\* descriptor ready and wake the select.
C3_SelectWaitLeavesChannelsUsable ==
    \A t \in Threads :
        pc[t] = "select_wait" =>
            \A j \in 1..Len(cur[t].list) : mutex[cur[t].list[j].channel] # t

\* a descriptor whose operation can proceed: a send with spare capacity, a
\* receive with a value to take
Ready(d) ==
    IF d.is_send THEN Len(buf[d.channel]) < Size[d.channel]
    ELSE Len(buf[d.channel]) > 0

\* thread t's scan settles on a descriptor in this step
Picks(t) == pc[t] = "select_scan" /\ pc'[t] \in {"send_lock", "recv_lock"}

\* C4: the descriptor channel_select settles on is the first ready one in
\* the caller's list order: it is ready, no descriptor before it is, the
\* index written to selected_index is its index, and the operation select
\* goes on to perform and returns from is that descriptor's, on that
\* descriptor's channel.
C4_SelectFirstReady ==
    [][/\ \A t \in Threads :
            Picks(t) =>
                LET l == cur[t].list
                    i == cur'[t].i
                IN  /\ Ready(l[i + 1])
                    /\ \A j \in 1..i : ~Ready(l[j])
                    /\ cur'[t].channel = l[i + 1].channel
                    /\ pc'[t] = IF l[i + 1].is_send THEN "send_lock"
                                ELSE "recv_lock"
       /\ (Returns /\ res'.op = "select") =>
            LET d == res'.list[res'.index + 1]
            IN  /\ res'.channel = d.channel
                /\ res'.kind = IF d.is_send THEN "send" ELSE "recv"]_vars

\* C4 happens: with both descriptors of [send B, send A] ready, select
\* returned index 0 having sent on B, and A was left alone
C4_Witness ==
    /\ res.op = "select"
    /\ res.list = <<[channel |-> "B", is_send |-> TRUE],
                    [channel |-> "A", is_send |-> TRUE]>>
    /\ res.index = 0
    /\ res.channel = "B"
    /\ res.status = SUCCESS
    /\ buf["B"] = <<res.data>>
    /\ buf["A"] = <<>>

\* the channels a list names
Listed(l) == {l[j].channel : j \in 1..Len(l)}

\* C5: a channel_select on closed channels returns in the end, with
\* CLOSED_ERROR and with selected_index the index of a descriptor on a
\* closed channel. The case taken is the one where a closed channel is all
\* the select can report: every channel of the list was closed before the
\* first scan.
C5_SelectReportsClosed ==
    \A t \in Threads :
        (pc[t] = "select_scan" /\ cur[t].closed0 = Listed(cur[t].list))
            ~> (/\ res.thread = t
                /\ res.op = "select"
                /\ res.status = CLOSED_ERROR
                /\ res.list[res.index + 1].channel \in res.closed0)

\* C6: while a channel is open, the values its successful receives handed
\* out, in the order they returned, followed by the values still buffered,
\* are the values inserted, in the order they were inserted: receives
\* deliver in send order, and what was received is a prefix of what was
\* inserted.
C6_Fifo ==
    \A c \in Channels : open[c] => inserted[c] = obtained[c] \o buf[c]

\* C6 happens: two values went into B, the first came out, the second waits
C6_Witness ==
    /\ open["B"]
    /\ Len(inserted["B"]) = 2
    /\ obtained["B"] = <<inserted["B"][1]>>
    /\ buf["B"] = <<inserted["B"][2]>>

\* the values of a sequence with their multiplicities
BagOf(q) ==
    [v \in {q[j] : j \in 1..Len(q)} |->
        Cardinality({j \in 1..Len(q) : q[j] = v})]
\* the stress program has ended: A is closed and no thread is inside a call
StressDone == ~open["A"] /\ \A t \in Threads : pc[t] = "idle"
\* the values the producers sent
StressSent ==
    [v \in {ValueOf(p, k) : p \in Producers, k \in 1..StressM} |-> 1]

Delivered(c) == SelectSeq(obtained[c], LAMBDA v : v # NULL)

C8_WouldBlock ==
    [][Returns =>
        LET r == res'
            c == r.channel
            isop == r.kind \in {"send", "recv"}
            stuck == IF r.kind = "send" THEN Len(buf[c]) = Size[c]
                     ELSE buf[c] = <<>>
        IN  /\ r.status = WOULDBLOCK =>
                 /\ isop /\ ~r.blocking /\ r.op # "select"
                 /\ open[c] /\ stuck
                 /\ UNCHANGED <<buf, open, semaphore, semcount>>
            /\ (isop /\ ~r.blocking /\ open[c]) =>
                 r.status = IF stuck THEN WOULDBLOCK ELSE SUCCESS]_vars

\* C8 happens: a non-blocking send on the full open channel got WOULDBLOCK
C8_Witness ==
    /\ res.kind = "send"
    /\ res.status = WOULDBLOCK
    /\ open[res.channel]
    /\ Len(buf[res.channel]) = Size[res.channel]

\* a call enters channel_send or channel_receive in this step
Enters(t) == pc[t] \in {"idle", "send_lock", "recv_lock"}

\* C9: on a closed channel closedness comes before the buffer: a
\* channel_send or channel_receive that is called on a closed channel
\* returns CLOSED_ERROR at once, whatever the buffer holds, and the buffer
\* of a closed channel never changes again, nor does any receive hand out
\* a value from it.
C9_ClosedFirst ==
    [][/\ \A c \in Channels : ~open[c] => buf'[c] = buf[c]
       /\ \A t \in Threads :
            (Enters(t) /\ pc'[t] \in {"send_wait", "recv_wait"}) =>
                open[cur'[t].channel]
       /\ (Returns /\ res'.kind \in {"send", "recv"} /\ ~open[res'.channel]) =>
            /\ res'.out = res'.data \/ res'.kind = "send"
            /\ Enters(res'.thread) => res'.status = CLOSED_ERROR]_vars

\* C9 happens: a receive on a closed channel that still holds a value got
\* CLOSED_ERROR
C9_Witness ==
    /\ res.kind = "recv"
    /\ res.status = CLOSED_ERROR
    /\ ~open[res.channel]
    /\ buf[res.channel] # <<>>

\* C10: the open flag starts true and never goes from false to true; a
\* channel_close returns SUCCESS exactly when it finds the channel open,
\* which no later close does, and a close that returns CLOSED_ERROR changes
\* nothing and wakes nobody.
C10_CloseOnce ==
    /\ \A c \in Channels : open[c]
    /\ [][/\ \A c \in Channels :
               /\ ~open[c] => ~open'[c]
               /\ (open[c] /\ ~open'[c]) =>
                    /\ Returns
                    /\ res'.kind = "close"
                    /\ res'.channel = c
          /\ (Returns /\ res'.kind = "close") =>
               /\ res'.status = IF open[res'.channel] THEN SUCCESS
                                ELSE CLOSED_ERROR
               /\ res'.status = SUCCESS => ~open'[res'.channel]
               /\ res'.status = CLOSED_ERROR =>
                    /\ UNCHANGED <<buf, open, semaphore, semcount>>
                    /\ \A u \in Threads \ {res'.thread} : pc'[u] = pc[u]]_vars

\* C10 happens: a second close of a channel got CLOSED_ERROR
C10_Witness ==
    /\ res.kind = "close"
    /\ res.status = CLOSED_ERROR
    /\ ~open[res.channel]

\* C11: channel_destroy on a channel that is open returns DESTROY_ERROR and
\* changes nothing: buffer, open flag, mutex, semaphore and every thread
\* stay as they were; on a closed channel it returns SUCCESS and releases
\* the channel's resources, once. (The channel is one free(channel) has
\* not released already.) Nothing but a channel_destroy releases them.
C11_DestroyPrecondition ==
    [][/\ \A c \in Channels :
            freed'[c] # freed[c] =>
                Returns /\ res'.kind = "destroy" /\ res'.channel = c
       /\ (Returns /\ res'.kind = "destroy" /\ freed[res'.channel] = 0) =>
            LET c == res'.channel IN
            IF open[c]
            THEN /\ res'.status = DESTROY_ERROR
                 /\ UNCHANGED <<buf, open, semaphore, mutex, semcount, pc,
                                inserted, obtained, freed>>
            ELSE /\ res'.status = SUCCESS
                 /\ freed' = [freed EXCEPT ![c] = 1]
                 /\ UNCHANGED <<buf, open, semaphore, mutex, semcount, pc,
                                inserted, obtained>>]_vars

\* C11 happens: a destroy of the open channel failed, and after the close
\* a destroy released it
C11_Witness ==
    /\ res.kind = "destroy"
    /\ res.status = SUCCESS
    /\ res.seq = 3
    /\ ~open[res.channel]
    /\ freed[res.channel] = 1

\* thread t takes this step: a thread parked in pthread_cond_wait is moved
\* by others, any other thread moves, or returns, by itself
Acts(t) ==
    /\ pc[t] \notin {"send_wait", "recv_wait"}
    /\ \/ pc'[t] # pc[t]
       \/ cur'[t] # cur[t]
       \/ Returns /\ res'.thread = t

\* C12: no step of a channel_select changes an open flag, and the only
\* step of it that changes a buffer is the one it returns in, which adds
\* one element to, or takes the oldest from, the buffer of the descriptor
\* whose index it wrote to selected_index, as that descriptor says; so the
\* call does one buffer operation at most and leaves the other channels
\* alone. What it returns is SUCCESS, CLOSED_ERROR or OTHER_ERROR.
C12_SelectOneOperation ==
    [][/\ \A t \in Threads :
            (Acts(t) /\ "select" \in {cur[t].op, cur'[t].op}) =>
                /\ open' = open
                /\ \A c \in Channels :
                     buf'[c] # buf[c] =>
                        /\ Returns /\ res'.thread = t
                        /\ LET d == res'.list[res'.index + 1] IN
                           /\ c = d.channel
                           /\ IF d.is_send
                              THEN /\ Len(buf'[c]) = Len(buf[c]) + 1
                                   /\ SubSeq(buf'[c], 1, Len(buf[c])) = buf[c]
                              ELSE buf'[c] = Tail(buf[c])
       /\ (Returns /\ res'.op = "select") =>
            res'.status \in {SUCCESS, CLOSED_ERROR, OTHER_ERROR}]_vars

\* C12 happens: a select on two channels returned having received on the
\* second one, the first one untouched
C12_Witness ==
    /\ res.op = "select"
    /\ res.kind = "recv"
    /\ res.status = SUCCESS
    /\ res.index = 1
    /\ res.list[1].channel # res.list[2].channel
    /\ obtained[res.channel] = inserted[res.channel]
    /\ inserted[res.channel] # <<>>
    /\ inserted[res.list[1].channel] = <<>>

\* C13: in every reachable state the occupancy of each channel's buffer is
\* between 0 and the capacity the channel was created with, which is
\* positive; channel_create(0) returns no channel, and a positive size
\* returns an open, empty one of that capacity.
C13_Occupancy ==
    /\ \A c \in Channels :
         /\ 0 <= BufferCurrentSize(c)
         /\ BufferCurrentSize(c) <= BufferCapacity(c)
         /\ BufferCapacity(c) > 0
         /\ ChannelCreate(Size[c]) =
              {[capacity |-> Size[c], buffer |-> <<>>, semaphore |-> NULL,
                open |-> TRUE]}
    /\ ChannelCreate(0) = {}

\* C13 happens: B holds as many values as its capacity, 2, and a third
\* send on it was turned away
C13_Witness ==
    /\ Len(buf["B"]) = Size["B"]
    /\ Len(inserted["B"]) = 2
    /\ res.kind = "send"
    /\ res.channel = "B"
    /\ res.status = WOULDBLOCK

\* the channel mutexes thread t holds
Held(t) == {c \in Channels : mutex[c] = t}

\* C14: no thread ever holds the mutexes of two different channels at the
\* same time.
C14_OneLockAtATime == \A t \in Threads : Cardinality(Held(t)) <= 1

\* C15: a thread that is outside every call, having returned from its
\* last one, or that is parked in the sem_wait of channel_select, holds no
\* channel mutex.
C15_NoLeakedLock ==
    \A t \in Threads : pc[t] \in {"idle", "select_wait"} => Held(t) = {}

\* thread t is inside a blocking channel_send or channel_receive on a
\* closed channel which it entered while the channel was open: parked in
\* pthread_cond_wait, or woken and on its way out of it
BlockedOnClosed(t) ==
    /\ pc[t] \in {"send_wait", "recv_wait", "send_woken", "recv_woken"}
    /\ ~open[cur[t].channel]

\* C16: once a channel is closed no thread is left parked on one of its
\* conditions, and every thread that was blocked in a channel_send or
\* channel_receive on it returns in the end, the threads being scheduled
\* fairly.
C16_CloseReleasesWaiters ==
    /\ [](\A t \in Threads :
            pc[t] \in {"send_wait", "recv_wait"} => open[cur[t].channel])
    /\ \A t \in Threads : BlockedOnClosed(t) ~> (pc[t] = "idle")

\* C17: when a channel_select returns SUCCESS from a send descriptor and
\* has added to the buffer, what it added is the value in the descriptor's
\* data field, the value a channel_send of that payload would add; when it
\* returns from a receive descriptor and has removed a value, the value is
\* what the descriptor's data field holds afterwards.
C17_SelectPayload ==
    [][(Returns /\ res'.op = "select" /\ res'.status = SUCCESS) =>
        LET t == res'.thread
            d == res'.list[res'.index + 1]
            c == d.channel
        IN  IF d.is_send
            THEN inserted'[c] # inserted[c] =>
                    inserted'[c] = Append(inserted[c], DescData(cur[t].sem, d))
            ELSE buf'[c] # buf[c] => res'.out = Head(buf[c])]_vars

\* thread t is a channel_select that has settled on a descriptor and is
\* about to lock its channel again inside channel_send or channel_receive
SelectCommitted(t) ==
    pc[t] \in {"send_lock", "recv_lock"} /\ cur[t].op = "select"

\* C18: between the scan that found descriptor i ready and the blocking
\* channel_send or channel_receive on it, the select holds no lock on
\* that channel, so others can use up what the scan saw; and if they
\* have, the channel being open, the select neither fails nor returns
\* WOULDBLOCK: it parks inside the blocking call on descriptor i, whatever
\* the other descriptors of its list could do.
C18_ScanThenActRace ==
    [][\A t \in Threads :
        SelectCommitted(t) =>
            /\ mutex[cur[t].channel] # t
            /\ (Acts(t) /\ open[cur[t].channel] /\ ~Ready(Desc(t))) =>
                 /\ pc'[t] = IF Desc(t).is_send THEN "send_wait"
                              ELSE "recv_wait"
                 /\ cur'[t] = cur[t]
                 /\ UNCHANGED <<res, buf>>]_vars

\* C18 happens: the select saw a value to receive at descriptor i, another
\* thread's receive took it, and the select is parked in channel_receive
\* on descriptor i while another descriptor of its list is ready
C18_Witness ==
    \E t \in Threads :
        /\ pc[t] = "recv_wait"
        /\ cur[t].op = "select"
        /\ open[cur[t].channel]
        /\ res.kind = "recv" /\ res.status = SUCCESS /\ res.thread # t
        /\ res.channel = cur[t].channel
        /\ \E j \in 1..Len(cur[t].list) :
             j # cur[t].i + 1 /\ Ready(cur[t].list[j])

\* thread t completes a round of the registration loop of channel_select
Registers(t) ==
    /\ pc[t] = "select_register"
    /\ \/ pc'[t] = "select_scan"
       \/ pc'[t] = "select_register" /\ cur'[t].i = cur[t].i + 1

\* C19: a channel records one semaphore. A registration step of a
\* channel_select puts the call's semaphore in the channel whatever was
\* recorded there, every listed channel has had its registration step
\* when the first scan begins, and nothing else changes the record. A
\* step posts at most one semaphore, once, and the semaphore posted is the
\* one the channel the step operates on records at that time: a select
\* whose semaphore another select has overwritten gets no post from that
\* channel.
C19_SingleHandle ==
    [][/\ \A t \in Threads :
            Registers(t) =>
                /\ semaphore' = [semaphore EXCEPT ![Desc(t).channel] = cur[t].sem]
                /\ pc'[t] = "select_scan" <=> cur[t].i + 1 = Len(cur[t].list)
       /\ semaphore' # semaphore => \E t \in Threads : Registers(t)
       /\ \A s \in SemIds :
            semcount'[s] > semcount[s] =>
                /\ semcount' = [semcount EXCEPT ![s] = @ + 1]
                /\ Returns
                /\ res'.kind \in {"send", "recv", "close"}
                /\ semaphore[res'.channel] = s]_vars

\* C19 happens: a select registered on A, a second select overwrote its
\* semaphore there, a send on A posted the second one's only, and the
\* first select, finding nothing ready, waits on a semaphore nobody posted
C19_Witness ==
    \E t \in Threads :
        /\ pc[t] = "select_wait"
        /\ "A" \in Listed(cur[t].list)
        /\ semcount[cur[t].sem] = 0
        /\ semaphore["A"] # cur[t].sem
        /\ semaphore["A"] # NULL
        /\ semcount[semaphore["A"]] = 1
        /\ inserted["A"] # <<>>

\* C20: a call inspects or changes a channel's buffer, open flag or
\* semaphore only with the channel's mutex in its hands: a step in which a
\* call on channel c returns, having read those fields, or in which one of
\* them changes, is taken while no other thread holds c's mutex
C20_FieldsUnderLock ==
    [][\A c \in Channels :
            (\/ Returns /\ res'.channel = c
             \/ buf'[c] # buf[c]
             \/ open'[c] # open[c]
             \/ semaphore'[c] # semaphore[c]) =>
                \E t \in Threads : Acts(t) /\ mutex[c] \in {NoThread, t}]_vars

====
